---- MODULE Spec2Model ----
(***************************************************************************)
(* Attendance time-accounting of hr-backend: the fitxatge ledger, the      *)
(* live clock endpoint and the auto-checkout sweep (routes/fitxatge.js),   *)
(* and the editor with its replay of an employee's history                 *)
(* (routes/fitxatgeEditor.js).                                             *)
(*                                                                         *)
(* Representation.  A date 'YYYY-MM-DD' is the triple <<y, m, d>>, a time  *)
(* of day 'HH:mm:ss' and a duration 'HH:MM:SS' are triples of integers, a  *)
(* dayjs value is the number of seconds since 1970-01-01 00:00:00 of the   *)
(* server's (naive, DST-free) local time.                                  *)
(***************************************************************************)
EXTENDS Integers, Sequences, FiniteSets, TLC

(***************************************************************************)
(* dayjs: calendar arithmetic                                              *)
(***************************************************************************)

\* Days since 1970-01-01 of the civil date <<y, m, d>> (dayjs(dia)).
DaysFromCivil(date) ==
    LET y   == IF date[2] <= 2 THEN date[1] - 1 ELSE date[1]
        era == y \div 400
        yoe == y - era * 400
        mp  == (date[2] + 9) % 12
        doy == (153 * mp + 2) \div 5 + date[3] - 1
        doe == yoe * 365 + yoe \div 4 - yoe \div 100 + doy
    IN  era * 146097 + doe - 719468

\* The civil date of a day number (dayjs#format('YYYY-MM-DD')).
CivilFromDays(z) ==
    LET zz  == z + 719468
        era == zz \div 146097
        doe == zz - era * 146097
        yoe == (doe - doe \div 1460 + doe \div 36524 - doe \div 146096) \div 365
        doy == doe - (365 * yoe + yoe \div 4 - yoe \div 100)
        mp  == (5 * doy + 2) \div 153
        d   == doy - (153 * mp + 2) \div 5 + 1
        m   == IF mp < 10 THEN mp + 3 ELSE mp - 9
        y   == yoe + era * 400 + (IF m <= 2 THEN 1 ELSE 0)
    IN  <<y, m, d>>

\* dayjs(`${dia} ${hora}`): a ledger stamp as seconds since the epoch.
ToDayjs(dia, hora) ==
    DaysFromCivil(dia) * 86400 + hora[1] * 3600 + hora[2] * 60 + hora[3]

\* now.format('YYYY-MM-DD') and now.format('HH:mm:ss').
FormatDate(t) == CivilFromDays(t \div 86400)
FormatTime(t) ==
    LET s == t % 86400 IN <<s \div 3600, (s % 3600) \div 60, s % 60>>

\* dayjs#day(): 0 = Sunday .. 6 = Saturday (1970-01-01 was a Thursday).
WeekDay(z) == (z + 4) % 7

\* dayjs isoWeek plugin, isoWeekday(): 1 = Monday .. 7 = Sunday.
IsoWeekday(z) == IF WeekDay(z) = 0 THEN 7 ELSE WeekDay(z)

\* dayjs isoWeek plugin, isoWeek(): the ISO-8601 week number of a date, the
\* number of the week of its Thursday counted from the first Thursday of
\* that Thursday's year.  The year itself is not part of the result.
IsoWeek(date) ==
    LET z        == DaysFromCivil(date)
        thu      == z + (4 - IsoWeekday(z))
        year     == CivilFromDays(thu)[1]
        jan1     == DaysFromCivil(<<year, 1, 1>>)
        firstThu == IF IsoWeekday(jan1) > 4
                    THEN jan1 + (4 - IsoWeekday(jan1)) + 7
                    ELSE jan1 + (4 - IsoWeekday(jan1))
    IN  (thu - firstThu) \div 7 + 1

\* now.startOf('week') / now.endOf('week') under dayjs' default locale, whose
\* week starts on Sunday, formatted as dates.
StartOfWeek(t) ==
    LET z == t \div 86400 IN CivilFromDays(z - WeekDay(z))
EndOfWeek(t) ==
    LET z == t \div 86400 IN CivilFromDays(z - WeekDay(z) + 6)

\* now.startOf('month') / now.endOf('month'), formatted as dates.
StartOfMonth(t) ==
    LET c == FormatDate(t) IN <<c[1], c[2], 1>>
EndOfMonth(t) ==
    LET c    == FormatDate(t)
        next == IF c[2] = 12 THEN <<c[1] + 1, 1, 1>> ELSE <<c[1], c[2] + 1, 1>>
    IN  CivilFromDays(DaysFromCivil(next) - 1)

\* Order of 'YYYY-MM-DD' values (the store's gte/lte and order on dia) and
\* of 'HH:mm:ss' values (order on hora).
TripleLeq(a, b) ==
    \/ a[1] < b[1]
    \/ a[1] = b[1] /\ a[2] < b[2]
    \/ a[1] = b[1] /\ a[2] = b[2] /\ a[3] <= b[3]

(***************************************************************************)
(* Time-duration codec                                                     *)
(***************************************************************************)

\* JavaScript's remainder takes the sign of the dividend.
JsRem(a, b) == IF a >= 0 THEN a % b ELSE -((-a) % b)

timeToSeconds(timeStr) ==
    timeStr[1] * 3600 + timeStr[2] * 60 + timeStr[3]

\* A formatter that wraps the hours at 24, as a time of day would.
secondsToTimeOfDay(totalSeconds) ==
    << (totalSeconds \div 3600) % 24,
       JsRem(totalSeconds, 3600) \div 60,
       JsRem(totalSeconds, 60) >>

secondsToTime(totalSeconds) ==
    << totalSeconds \div 3600,
       JsRem(totalSeconds, 3600) \div 60,
       JsRem(totalSeconds, 60) >>

ZeroTime == <<0, 0, 0>>

(***************************************************************************)
(* Bounds and inputs                                                       *)
(***************************************************************************)

\* Rows ever inserted into fitxatge when every endpoint is in use (Spec) ...
MaxId == 3
\* ... when only the clock endpoint and the sweep are (SpecLive, SpecRace),
\* and the instants the wall clock then passes through ...
MaxLiveId == 4
MaxLiveTick == 4
\* ... and when only the editor is (SpecEditor).
MaxEditId == 3
\* Rows of a ledger handed to recomputeHours alone (SpecRecompute).
MaxLen == 3
\* Rows of a ledger spread over days and weeks (SpecPeriods).
MaxPeriodLen == 4

\* The instants the wall clock passes through, in order:
\* Sat 08:00, Sat 12:00, Sun 09:00, Sun 18:00, Mon 08:00, Thu 1 Feb, Fri.
AllInstants ==
    << ToDayjs(<<2024, 1, 27>>, <<8, 0, 0>>),
       ToDayjs(<<2024, 1, 27>>, <<12, 0, 0>>),
       ToDayjs(<<2024, 1, 28>>, <<9, 0, 0>>),
       ToDayjs(<<2024, 1, 28>>, <<18, 0, 0>>),
       ToDayjs(<<2024, 1, 29>>, <<8, 0, 0>>),
       ToDayjs(<<2024, 2, 1>>, <<9, 30, 15>>),
       ToDayjs(<<2024, 2, 2>>, <<9, 0, 0>>) >>

\* The (Dia, Hora) values a supervisor submits through the editor: the
\* evening of the Friday before the clock starts, and two times of Saturday.
BackDated == { <<<<2024, 1, 26>>, <<18, 0, 0>>>> }
EditorStamps ==
    BackDated \cup { <<<<2024, 1, 27>>, <<8, 0, 0>>>>,
                     <<<<2024, 1, 27>>, <<12, 0, 0>>>> }

\* The two revisions of routes/fitxatge.js the repository holds.
Revisions == {"current", "legacy"}

\* employees: employee_id and pin_code.
EmployeesTable ==
    { [employee_id |-> 1, pin_code |-> "1111"],
      [employee_id |-> 2, pin_code |-> "2222"] }
Emps == {e.employee_id : e \in EmployeesTable}

\* jobdescription: job_id and department (a catalogue no handler writes).
JobDescription ==
    { [job_id |-> 1, department |-> "Production"],
      [job_id |-> 2, department |-> "Office"] }
\* The rows keyed by employee_id outside fitxatge and incidences: the table
\* and the employee, and for workdetails the job (0 for null). Employee 1
\* has a job and a leave record, employee 2 a job.
ChildrenTable ==
    { [table |-> "WorkDetails", employee_id |-> 1, job_id |-> 1],
      [table |-> "WorkDetails", employee_id |-> 2, job_id |-> 2],
      [table |-> "Baixes", employee_id |-> 1, job_id |-> 0] }
\* pinCode of a request body: a known PIN, an unknown one, or none ("").
PinInputs == {"1111", "2222", "9999", ""}

(***************************************************************************)
(* State                                                                   *)
(***************************************************************************)
VARIABLES
    revision,    \* which revision of routes/fitxatge.js is deployed
    employees,   \* table employees
    fitxatge,    \* table fitxatge: the attendance ledger, a set of rows
    incidences,  \* table incidences, in insertion order
    nextId,      \* next serial id of fitxatge
    now,         \* position of the wall clock in AllInstants
    guard,       \* the running forceLongSessions call, if any
    last,        \* the last completed operation and its HTTP status
    children,    \* the tables keyed by employee_id besides fitxatge and
                 \* incidences: leave records and the profile tables
    nextEmployeeId, \* next serial employee_id
    pending,     \* POST /api/employees requests between generateUniquePin
                 \* and their insert, each holding its generated PIN
    inflight,    \* calls of the editor and runs of the guard between two
                 \* of their awaits, each with its local variables
    bound        \* the bounds of the exploration: greatest id, the instants
                 \* the wall clock passes through, the editor's stamps

vars ==
    <<revision, employees, fitxatge, incidences, nextId, now, guard, last,
      children, nextEmployeeId, pending, inflight, bound>>

\* What only the employee and incidence routers write, and the calls in
\* flight, which the one-at-a-time actions do not have.
hrVars == <<children, nextEmployeeId, pending, inflight>>

NowT == bound.instants[now]

GuardIdle == [pc |-> "idle", now |-> 0, sessions |-> <<>>]

\* `last` once a handler has answered: the operation, its HTTP status (0 for
\* the sweep, which answers nobody), the employee whose ledger it wrote,
\* whether it awaited recomputeHours before answering, whether that changed
\* a duration field of a row other than the one the request named, and how
\* many times in a row recomputeHours has run alone for that employee;
\* `query` is what the request named (an id, its filters), `body` the rows of
\* the response body, `issued` the tables a handler has sent a delete to, in
\* order.
Done(op, status, emp, recomputed) ==
    [ op |-> op, status |-> status, emp |-> emp, recomputed |-> recomputed,
      changed |-> FALSE, run |-> 0, query |-> <<>>, body |-> {},
      issued |-> <<>> ]

\* No answer is outstanding: the next request or sweep can be taken up.
Idle == Done("none", 0, 0, FALSE)
Ready == last = Idle

(***************************************************************************)
(* The store: ordering and selection of ledger rows                        *)
(***************************************************************************)

RowsOf(table, employeeId) == {r \in table : r.employee_id = employeeId}

\* .order('dia').order('hora').order('id'), ascending
RowBefore(a, b) ==
    \/ a.dia # b.dia /\ TripleLeq(a.dia, b.dia)
    \/ a.dia = b.dia /\ a.hora # b.hora /\ TripleLeq(a.hora, b.hora)
    \/ a.dia = b.dia /\ a.hora = b.hora /\ a.id < b.id

RECURSIVE Ordered(_)
Ordered(S) ==
    IF S = {} THEN <<>>
    ELSE LET first == CHOOSE r \in S : \A o \in S \ {r} : RowBefore(r, o)
         IN  <<first>> \o Ordered(S \ {first})

\* A lookup that returns the row of smallest id.
EarliestById(S) == {r \in S : \A o \in S : r.id <= o.id}

\* .order('id', { ascending: false }).limit(1).maybeSingle(): a set holding
\* the row of greatest id, or the empty set for data = null.
LatestById(S) == {r \in S : \A o \in S : o.id <= r.id}

NewRow(id, employeeId, dia, hora, working, daily, weekly, monthly) ==
    [ id |-> id, employee_id |-> employeeId,
      dia |-> dia, hora |-> hora,
      working |-> working, active |-> working,
      hores_diaries |-> daily, hores_setmanals |-> weekly,
      hores_mensuals |-> monthly ]

(***************************************************************************)
(* routes/fitxatgeEditor.js: recomputeHours                                *)
(***************************************************************************)

\* The running state of the replay before its first row: the three running
\* totals, currentDay / currentWeek / currentMonth (<<>> and 0 stand for
\* null) and lastCheckInTime (hasIn = FALSE stands for null).
ReplayStart(table) ==
    [ table |-> table,
      daily |-> 0, weekly |-> 0, monthly |-> 0,
      currentDay |-> <<>>, currentWeek |-> 0, currentMonth |-> <<>>,
      hasIn |-> FALSE, lastCheckInTime |-> 0 ]

\* An update that adds the computed totals to the stored ones instead of
\* overwriting them.
UpdateRowAdding(table, id, active, daily, weekly, monthly) ==
    { IF r.id = id
      THEN [r EXCEPT !.active = active,
                     !.hores_diaries =
                         secondsToTime(timeToSeconds(@) + timeToSeconds(daily)),
                     !.hores_setmanals =
                         secondsToTime(timeToSeconds(@) + timeToSeconds(weekly)),
                     !.hores_mensuals =
                         secondsToTime(timeToSeconds(@) + timeToSeconds(monthly))]
      ELSE r : r \in table }

\* The store's update of one row by id.
UpdateRow(table, id, active, daily, weekly, monthly) ==
    { IF r.id = id
      THEN [r EXCEPT !.active = active, !.hores_diaries = daily,
                     !.hores_setmanals = weekly, !.hores_mensuals = monthly]
      ELSE r : r \in table }

\* The periods of a row and of the running state, and the running totals
\* after the resets of a day, week or month change.
RowWeek(record) == IsoWeek(record.dia)
RowMonthStr(record) == <<record.dia[1], record.dia[2]>>
\* A daily reset that looks at the month only.
DayResetByMonth(st, record) ==
    st.currentMonth = <<>> \/ RowMonthStr(record) # st.currentMonth
DayReset(st, record) == st.currentDay = <<>> \/ record.dia # st.currentDay
WeekReset(st, record) == st.currentWeek = 0 \/ RowWeek(record) # st.currentWeek
MonthReset(st, record) ==
    st.currentMonth = <<>> \/ RowMonthStr(record) # st.currentMonth

\* An iteration that keeps lastCheckInTime after a check-out, so that a second
\* check-out counts from the same check-in again.
ReplayRowKeepingCheckIn(st, record) ==
    LET rowDateTime == ToDayjs(record.dia, record.hora)
        d0 == IF DayReset(st, record) THEN 0 ELSE st.daily
        w0 == IF WeekReset(st, record) THEN 0 ELSE st.weekly
        m0 == IF MonthReset(st, record) THEN 0 ELSE st.monthly
        rawDiff == rowDateTime - st.lastCheckInTime
        diffInSeconds ==
            IF st.hasIn THEN (IF rawDiff < 0 THEN 0 ELSE rawDiff) ELSE 0
        seen == [ st EXCEPT !.currentDay = record.dia,
                            !.currentWeek = RowWeek(record),
                            !.currentMonth = RowMonthStr(record) ]
    IN  IF record.working = TRUE
        THEN [ seen EXCEPT
                 !.table = UpdateRow(st.table, record.id, TRUE,
                                     ZeroTime, ZeroTime, ZeroTime),
                 !.daily = d0, !.weekly = w0, !.monthly = m0,
                 !.hasIn = TRUE, !.lastCheckInTime = rowDateTime ]
        ELSE [ seen EXCEPT
                 !.table = UpdateRow(st.table, record.id, FALSE,
                                     secondsToTime(d0 + diffInSeconds),
                                     secondsToTime(w0 + diffInSeconds),
                                     secondsToTime(m0 + diffInSeconds)),
                 !.daily = d0 + diffInSeconds,
                 !.weekly = w0 + diffInSeconds,
                 !.monthly = m0 + diffInSeconds ]

\* One iteration of the loop of recomputeHours over `record`.
ReplayRow(st, record) ==
    LET rowDateTime == ToDayjs(record.dia, record.hora)
        rowWeek     == RowWeek(record)
        rowMonthStr == RowMonthStr(record)
        d0          == IF DayReset(st, record) THEN 0 ELSE st.daily
        w0          == IF WeekReset(st, record) THEN 0 ELSE st.weekly
        m0          == IF MonthReset(st, record) THEN 0 ELSE st.monthly
        rawDiff     == rowDateTime - st.lastCheckInTime
        diffInSeconds ==
            IF st.hasIn THEN (IF rawDiff < 0 THEN 0 ELSE rawDiff) ELSE 0
    IN  IF record.working = TRUE
        THEN [ st EXCEPT
                 !.table = UpdateRow(st.table, record.id, TRUE,
                                     ZeroTime, ZeroTime, ZeroTime),
                 !.daily = d0, !.weekly = w0, !.monthly = m0,
                 !.currentDay = record.dia, !.currentWeek = rowWeek,
                 !.currentMonth = rowMonthStr,
                 !.hasIn = TRUE, !.lastCheckInTime = rowDateTime ]
        ELSE [ st EXCEPT
                 !.table = UpdateRow(st.table, record.id, FALSE,
                                     secondsToTime(d0 + diffInSeconds),
                                     secondsToTime(w0 + diffInSeconds),
                                     secondsToTime(m0 + diffInSeconds)),
                 !.daily = d0 + diffInSeconds,
                 !.weekly = w0 + diffInSeconds,
                 !.monthly = m0 + diffInSeconds,
                 !.currentDay = record.dia, !.currentWeek = rowWeek,
                 !.currentMonth = rowMonthStr,
                 !.hasIn = FALSE, !.lastCheckInTime = 0 ]

RECURSIVE ReplayFrom(_, _, _)
ReplayFrom(st, rows, i) ==
    IF i > Len(rows) THEN st
    ELSE ReplayFrom(ReplayRow(st, rows[i]), rows, i + 1)

\* A recomputation that writes nothing.
RecomputeNothing(table, employeeId) == table

\* recomputeHours(employeeId): the table after the replay of the employee's
\* rows, read once in (dia, hora, id) order, with every update accepted by
\* the store.
recomputeHours(table, employeeId) ==
    ReplayFrom(ReplayStart(table), Ordered(RowsOf(table, employeeId)), 1).table

(***************************************************************************)
(* routes/fitxatge.js: totals already recorded for a period                *)
(***************************************************************************)

\* The session ceiling of each revision: 10 h, and 12 h 30 min before.
MAX_SESSION_SECONDS(rev) ==
    IF rev = "current" THEN 10 * 3600 ELSE 45000

InRange(dia, start, end) == TripleLeq(start, dia) /\ TripleLeq(dia, end)

\* Current revision: the running total stored on the check-out row of
\* greatest id within the period, 0 when there is none.
LastTotal(rows, field) ==
    LET hit == LatestById({r \in rows : r.working = FALSE})
    IN  IF hit = {} THEN 0 ELSE timeToSeconds((CHOOSE r \in hit : TRUE)[field])

\* Legacy revision: the sum of hores_diaries over every row of the period.
RECURSIVE SumDaily(_)
SumDaily(rows) ==
    IF rows = {} THEN 0
    ELSE LET r == CHOOSE x \in rows : TRUE
         IN  timeToSeconds(r.hores_diaries) + SumDaily(rows \ {r})

sumSecondsForDay(rev, table, employeeId, dateStr) ==
    LET rows == {r \in RowsOf(table, employeeId) : r.dia = dateStr}
    IN  IF rev = "current" THEN LastTotal(rows, "hores_diaries")
        ELSE SumDaily(rows)

sumSecondsForWeek(rev, table, employeeId, t) ==
    LET rows == {r \in RowsOf(table, employeeId) :
                    InRange(r.dia, StartOfWeek(t), EndOfWeek(t))}
    IN  IF rev = "current" THEN LastTotal(rows, "hores_setmanals")
        ELSE SumDaily(rows)

sumSecondsForMonth(rev, table, employeeId, t) ==
    LET rows == {r \in RowsOf(table, employeeId) :
                    InRange(r.dia, StartOfMonth(t), EndOfMonth(t))}
    IN  IF rev = "current" THEN LastTotal(rows, "hores_mensuals")
        ELSE SumDaily(rows)

\* The check-out row both the endpoint and the sweep insert at instant t:
\* the recorded totals of the day, week and month of t plus `seconds`.
CheckOutRow(rev, table, id, employeeId, t, seconds) ==
    NewRow(id, employeeId, FormatDate(t), FormatTime(t), FALSE,
           secondsToTime(sumSecondsForDay(rev, table, employeeId, FormatDate(t))
                         + seconds),
           secondsToTime(sumSecondsForWeek(rev, table, employeeId, t) + seconds),
           secondsToTime(sumSecondsForMonth(rev, table, employeeId, t) + seconds))

\* The incidence written with a forced check-out.
AutoCheckoutIncidence(rev, employeeId, t) ==
    [ worker_id |-> employeeId,
      incidence_type |-> IF rev = "current"
                         THEN "Auto-checkout >10h (no manual checkout)"
                         ELSE "Auto-checkout >12h30",
      InstanceStatus |-> "Open",
      date_created |-> FormatDate(t),
      date_resolved |-> <<>> ]

(***************************************************************************)
(* routes/fitxatge.js: POST /checkin-out                                   *)
(***************************************************************************)

\* Seconds the endpoint adds for a session started by the row `lastRow`:
\* the elapsed time, which only the legacy revision caps at the ceiling.
LiveSeconds(rev, lastRow, t) ==
    LET seconds == t - ToDayjs(lastRow.dia, lastRow.hora)
    IN  IF rev = "legacy" /\ seconds > MAX_SESSION_SECONDS(rev)
        THEN MAX_SESSION_SECONDS(rev) ELSE seconds

LiveForced(rev, lastRow, t) ==
    rev = "legacy" /\ t - ToDayjs(lastRow.dia, lastRow.hora) > MAX_SESSION_SECONDS(rev)

\* A lookup that falls back on the first employee when no PIN matches.
FindEmployeeOrFirst(table, pinCode) ==
    LET hit == {e \in table : e.pin_code = pinCode}
    IN  IF hit # {} THEN hit
        ELSE {e \in table : \A o \in table : e.employee_id <= o.employee_id}

\* .from("employees").eq("pin_code", pinCode).maybeSingle(): a set holding
\* the employee of that PIN, or the empty set for data = null.
FindEmployee(table, pinCode) == {e \in table : e.pin_code = pinCode}

CheckinOut(pinCode) ==
    LET found == FindEmployee(employees, pinCode) IN
    /\ Ready
    /\ UNCHANGED <<hrVars, bound, revision, employees, now, guard>>
    /\ IF pinCode = ""
       THEN /\ last' = Done("checkin-out", 400, 0, FALSE)
            /\ UNCHANGED <<fitxatge, incidences, nextId>>
       ELSE IF found = {}
       THEN /\ last' = Done("checkin-out", 404, 0, FALSE)
            /\ UNCHANGED <<fitxatge, incidences, nextId>>
       ELSE
         LET employeeId == (CHOOSE e \in found : TRUE).employee_id
             lastSet    == LatestById(RowsOf(fitxatge, employeeId))
         IN
         /\ nextId <= bound.id
         /\ nextId' = nextId + 1
         /\ IF lastSet = {} \/ (CHOOSE r \in lastSet : TRUE).working = FALSE
            THEN \* CHECK-IN
                 /\ fitxatge' = fitxatge \cup
                        {NewRow(nextId, employeeId, FormatDate(NowT),
                                FormatTime(NowT), TRUE,
                                ZeroTime, ZeroTime, ZeroTime)}
                 /\ UNCHANGED incidences
                 /\ last' = Done("check-in", 200, employeeId, FALSE)
            ELSE \* CHECK-OUT
                 LET lastRow == CHOOSE r \in lastSet : TRUE IN
                 /\ fitxatge' = fitxatge \cup
                        {CheckOutRow(revision, fitxatge, nextId, employeeId, NowT,
                                     LiveSeconds(revision, lastRow, NowT))}
                 /\ incidences' =
                        IF LiveForced(revision, lastRow, NowT)
                        THEN Append(incidences,
                                    AutoCheckoutIncidence(revision, employeeId, NowT))
                        ELSE incidences
                 /\ last' = Done("check-out", 200, employeeId, FALSE)

(***************************************************************************)
(* routes/fitxatge.js: forceLongSessions                                   *)
(***************************************************************************)

\* rpc('get_open_sessions'): for every employee whose latest event is a
\* check-in, that event.
get_open_sessions(table) ==
    UNION { {r \in LatestById(RowsOf(table, e)) : r.working = TRUE} :
            e \in {x.employee_id : x \in table} }

RECURSIVE ByEmployee(_)
ByEmployee(S) ==
    IF S = {} THEN <<>>
    ELSE LET first == CHOOSE r \in S : \A o \in S : r.employee_id <= o.employee_id
         IN  <<first>> \o ByEmployee(S \ {first})

OverCeiling(rev, r, t) == t - ToDayjs(r.dia, r.hora) > MAX_SESSION_SECONDS(rev)

\* A loop body that adds the elapsed time of the session, not the ceiling.
GuardCloseElapsed(rev, st, r, t) ==
    IF ~OverCeiling(rev, r, t) THEN st
    ELSE [ fitxatge   |-> st.fitxatge \cup
                            {CheckOutRow(rev, st.fitxatge, st.nextId, r.employee_id,
                                         t, t - ToDayjs(r.dia, r.hora))},
           incidences |-> Append(st.incidences,
                                 AutoCheckoutIncidence(rev, r.employee_id, t)),
           nextId     |-> st.nextId + 1 ]

\* The body of the loop for the open session r, the sweep having read the
\* clock at t: st holds the tables and the serial id.
GuardClose(rev, st, r, t) ==
    IF ~OverCeiling(rev, r, t) THEN st
    ELSE [ fitxatge   |-> st.fitxatge \cup
                            {CheckOutRow(rev, st.fitxatge, st.nextId, r.employee_id,
                                         t, MAX_SESSION_SECONDS(rev))},
           incidences |-> Append(st.incidences,
                                 AutoCheckoutIncidence(rev, r.employee_id, t)),
           nextId     |-> st.nextId + 1 ]

RECURSIVE SweepFrom(_, _, _, _, _)
SweepFrom(rev, st, sessions, i, t) ==
    IF i > Len(sessions) THEN st
    ELSE SweepFrom(rev, GuardClose(rev, st, sessions[i], t), sessions, i + 1, t)

\* One whole run of forceLongSessions with no other request in between.
ForceLongSessions ==
    LET sessions == ByEmployee(get_open_sessions(fitxatge))
        st == SweepFrom(revision,
                        [fitxatge |-> fitxatge, incidences |-> incidences,
                         nextId |-> nextId],
                        sessions, 1, NowT)
    IN  /\ Ready
        /\ guard.pc = "idle"
        /\ st.nextId <= bound.id + 1
        /\ fitxatge' = st.fitxatge
        /\ incidences' = st.incidences
        /\ nextId' = st.nextId
        /\ last' = Done("forceLongSessions", 0, 0, FALSE)
        /\ UNCHANGED <<hrVars, bound, revision, employees, now, guard>>

\* The same run at its store-I/O boundaries: the rpc and the reading of the
\* clock, then one iteration of the loop at a time.
GuardStart ==
    /\ Ready
    /\ guard.pc = "idle"
    /\ guard' = [pc |-> "loop", now |-> NowT,
                 sessions |-> ByEmployee(get_open_sessions(fitxatge))]
    /\ UNCHANGED <<hrVars, bound, revision, employees, fitxatge, incidences, nextId, now, last>>

GuardStep ==
    /\ Ready
    /\ guard.pc = "loop"
    /\ guard.sessions # <<>>
    /\ LET st == GuardClose(revision,
                            [fitxatge |-> fitxatge, incidences |-> incidences,
                             nextId |-> nextId],
                            Head(guard.sessions), guard.now)
       IN  /\ st.nextId <= bound.id + 1
           /\ fitxatge' = st.fitxatge
           /\ incidences' = st.incidences
           /\ nextId' = st.nextId
    /\ guard' = [guard EXCEPT !.sessions = Tail(guard.sessions)]
    /\ UNCHANGED <<hrVars, bound, revision, employees, now, last>>

GuardEnd ==
    /\ Ready
    /\ guard.pc = "loop"
    /\ guard.sessions = <<>>
    /\ guard' = GuardIdle
    /\ last' = Done("forceLongSessions", 0, 0, FALSE)
    /\ UNCHANGED <<hrVars, bound, revision, employees, fitxatge, incidences, nextId, now>>

(***************************************************************************)
(* routes/fitxatgeEditor.js: the editor endpoints                          *)
(***************************************************************************)

Durations(r) == <<r.hores_diaries, r.hores_setmanals, r.hores_mensuals>>

\* Some row of `before` is in `after` with other duration fields.
Changed(before, after) ==
    \E r \in before : \E q \in after :
        q.id = r.id /\ Durations(q) # Durations(r)

\* POST /editor with body { employee_id, Dia, Hora, Working }; employee_id 0
\* stands for a body without it.
EditorInsert(employee_id, Dia, Hora, Working) ==
    /\ Ready
    /\ UNCHANGED <<hrVars, bound, revision, employees, incidences, now, guard>>
    /\ IF employee_id = 0
       THEN /\ last' = Done("POST /editor", 400, 0, FALSE)
            /\ UNCHANGED <<fitxatge, nextId>>
       ELSE /\ nextId <= bound.id
            /\ nextId' = nextId + 1
            /\ fitxatge' = recomputeHours(
                   fitxatge \cup {NewRow(nextId, employee_id, Dia, Hora, Working,
                                         ZeroTime, ZeroTime, ZeroTime)},
                   employee_id)
            /\ last' = [Done("POST /editor", 200, employee_id, TRUE)
                           EXCEPT !.changed = Changed(fitxatge, fitxatge')]

\* A lookup that takes an unknown id for the first row of the ledger.
RowByIdOrAny(table, id) ==
    IF \E r \in table : r.id = id THEN {r \in table : r.id = id}
    ELSE IF table = {} THEN {}
    ELSE {CHOOSE r \in table : \A o \in table : r.id <= o.id}

\* .from('fitxatge').select('employee_id').eq('id', id).maybeSingle(): a set
\* holding the row of that id, or the empty set for data = null.
RowById(table, id) == {r \in table : r.id = id}

\* A body of PUT /editor/:id without Dia and Hora.
NoStamp == << <<>>, <<>> >>

\* PUT /editor/:id with body { Dia, Hora, Working }
EditorUpdate(id, Dia, Hora, Working) ==
    LET row == RowById(fitxatge, id) IN
    /\ Ready
    /\ UNCHANGED <<hrVars, bound, revision, employees, incidences, nextId, now, guard>>
    /\ IF Dia = <<>> \/ Hora = <<>>
       THEN /\ last' = [Done("PUT /editor/:id", 400, 0, FALSE) EXCEPT !.query = <<id>>]
            /\ UNCHANGED fitxatge
       ELSE IF row = {}
       THEN /\ last' = [Done("PUT /editor/:id", 404, 0, FALSE) EXCEPT !.query = <<id>>]
            /\ UNCHANGED fitxatge
       ELSE LET employeeId == (CHOOSE r \in row : TRUE).employee_id IN
            /\ fitxatge' = recomputeHours(
                   { IF r.id = id
                     THEN [r EXCEPT !.dia = Dia, !.hora = Hora, !.working = Working]
                     ELSE r : r \in fitxatge },
                   employeeId)
            /\ last' = [Done("PUT /editor/:id", 200, employeeId, TRUE)
                           EXCEPT !.query = <<id>>,
                                  !.changed = Changed(fitxatge \ row, fitxatge')]

\* DELETE /editor/:id
EditorDelete(id) ==
    LET row == RowById(fitxatge, id) IN
    /\ Ready
    /\ UNCHANGED <<hrVars, bound, revision, employees, incidences, nextId, now, guard>>
    /\ IF row = {}
       THEN /\ last' = [Done("DELETE /editor/:id", 404, 0, FALSE) EXCEPT !.query = <<id>>]
            /\ UNCHANGED fitxatge
       ELSE LET employeeId == (CHOOSE r \in row : TRUE).employee_id IN
            /\ fitxatge' = recomputeHours(fitxatge \ row, employeeId)
            /\ last' = [Done("DELETE /editor/:id", 200, employeeId, TRUE)
                           EXCEPT !.query = <<id>>,
                                  !.changed = Changed(fitxatge, fitxatge')]

(***************************************************************************)
(* The system                                                              *)
(***************************************************************************)

\* The wall clock moves on.
Tick ==
    /\ Ready
    /\ now < Len(bound.instants)
    /\ now' = now + 1
    /\ UNCHANGED <<hrVars, bound, revision, employees, fitxatge, incidences, nextId, guard, last>>

\* The answer of the last operation has gone out.
Return ==
    /\ ~Ready
    /\ last' = Idle
    /\ UNCHANGED <<hrVars, bound, revision, employees, fitxatge, incidences, nextId, now, guard>>

Start(b, revs) ==
    /\ revision \in revs
    /\ employees = EmployeesTable
    /\ fitxatge = {}
    /\ incidences = <<>>
    /\ nextId = 1
    /\ now = 1
    /\ guard = GuardIdle
    /\ last = Idle
    /\ children = ChildrenTable
    /\ nextEmployeeId = 3
    /\ pending = <<>>
    /\ inflight = <<>>
    /\ bound = b

\* With every endpoint in use the clock stays within one Saturday and the
\* editor writes back-dated stamps.
Init ==
    Start([id |-> MaxId, instants |-> SubSeq(AllInstants, 1, 2),
           stamps |-> BackDated], Revisions)
InitLive ==
    Start([id |-> MaxLiveId, instants |-> SubSeq(AllInstants, 1, MaxLiveTick),
           stamps |-> {}], Revisions)
\* The editor reads neither the clock nor anything of routes/fitxatge.js.
InitEditor ==
    Start([id |-> MaxEditId, instants |-> SubSeq(AllInstants, 1, 1),
           stamps |-> EditorStamps], {"current"})

\* The ids of a request: those of the rows, and one that matches no row.
Ids == {r.id : r \in fitxatge} \cup {nextId}

Editor ==
    \/ \E e \in Emps \cup {0}, s \in bound.stamps, w \in BOOLEAN :
           EditorInsert(e, s[1], s[2], w)
    \/ \E id \in Ids, s \in bound.stamps \cup {NoStamp}, w \in BOOLEAN :
           EditorUpdate(id, s[1], s[2], w)
    \/ \E id \in Ids : EditorDelete(id)

Live == \E p \in PinInputs : CheckinOut(p)

\* Every endpoint and the sweep, one request or sweep at a time.
Next == Tick \/ Live \/ ForceLongSessions \/ Editor \/ Return
Spec == Init /\ [][Next]_vars

\* The clock endpoint and the sweep, one at a time.
NextLive == Tick \/ Live \/ ForceLongSessions \/ Return
SpecLive == InitLive /\ [][NextLive]_vars

\* The clock endpoint racing the sweep at the sweep's store-I/O boundaries.
NextRace == Tick \/ Live \/ GuardStart \/ GuardStep \/ GuardEnd \/ Return
SpecRace == InitLive /\ [][NextRace]_vars

\* The editor alone.
NextEditor == Editor \/ Return
SpecEditor == InitEditor /\ [][NextEditor]_vars

(***************************************************************************)
(* recomputeHours alone, over ledgers of any shape                         *)
(***************************************************************************)

\* A stored row as some earlier write left it: any editor stamp, either
\* kind, either employee, with duration fields and an active flag that no
\* replay produced.
StaleTime == <<1, 2, 3>>
StoredRow(id, c) ==
    [NewRow(id, c[1], c[2][1], c[2][2], c[3], StaleTime, StaleTime, StaleTime)
        EXCEPT !.active = ~c[3]]

\* A ledger with ids 1..n: row i is of the employee, stamp and kind f[i].
Ledger(f, n) == {StoredRow(i, f[i]) : i \in 1..n}

\* Every such ledger of at most MaxLen rows.
InitRecompute ==
    /\ revision = "current"
    /\ employees = EmployeesTable
    /\ \E n \in 0..MaxLen : \E f \in [1..n -> Emps \X EditorStamps \X BOOLEAN] :
           fitxatge = Ledger(f, n)
    /\ incidences = <<>>
    /\ nextId = MaxLen + 1
    /\ now = 1
    /\ guard = GuardIdle
    /\ last = Idle
    /\ children = ChildrenTable
    /\ nextEmployeeId = 3
    /\ pending = <<>>
    /\ inflight = <<>>
    /\ bound = [id |-> MaxLen, instants |-> SubSeq(AllInstants, 1, 1),
                stamps |-> EditorStamps]

\* One call of recomputeHours(employeeId), nothing else writing the ledger.
RecomputeHours(employeeId) ==
    /\ fitxatge' = recomputeHours(fitxatge, employeeId)
    /\ last' = [Done("recomputeHours", 0, employeeId, TRUE) EXCEPT
                   !.run = IF last.op = "recomputeHours" /\ last.emp = employeeId
                           THEN 2 ELSE 1]
    /\ UNCHANGED <<hrVars, bound, revision, employees, incidences, nextId, now, guard>>

NextRecompute == \E e \in Emps : RecomputeHours(e)
SpecRecompute == InitRecompute /\ [][NextRecompute]_vars

(***************************************************************************)
(* Properties                                                              *)
(***************************************************************************)

\* C1: a run of recomputeHours that directly follows a run for the same
\* employee leaves every row of the ledger, with its active flag and its
\* daily, weekly and monthly fields, as the first run left it.
C1_Idempotent ==
    [][ (last.op = "recomputeHours" /\ last'.op = "recomputeHours"
            /\ last'.emp = last.emp)
        => fitxatge' = fitxatge ]_vars

\* Two runs in a row over a ledger that starts with a check-out and holds a
\* check-out with a total.
C1_Witness ==
    /\ last.op = "recomputeHours" /\ last.run = 2
    /\ LET rows == Ordered(RowsOf(fitxatge, last.emp))
       IN  /\ Len(rows) >= 2
           /\ rows[1].working = FALSE
           /\ \E i \in 1..Len(rows) :
                  rows[i].working = FALSE /\ rows[i].hores_diaries # ZeroTime

\* The elapsed-time chain of a ledger in (dia, hora, id) order: a check-out
\* that directly follows a check-in closes the session between the two, any
\* other row closes nothing.
Elapsed(rows, i) ==
    IF rows[i].working = FALSE /\ i > 1 /\ rows[i - 1].working = TRUE
    THEN ToDayjs(rows[i].dia, rows[i].hora)
             - ToDayjs(rows[i - 1].dia, rows[i - 1].hora)
    ELSE 0

RECURSIVE SumElapsed(_, _, _)
SumElapsed(rows, from, to) ==
    IF from > to THEN 0
    ELSE Elapsed(rows, from) + SumElapsed(rows, from + 1, to)

\* The first row of the unbroken run of rows up to i that share a period.
DayOf(r) == r.dia
WeekOf(r) == IsoWeek(r.dia)
MonthOf(r) == <<r.dia[1], r.dia[2]>>
RunStart(rows, i, Period(_)) ==
    CHOOSE j \in 1..i :
        /\ \A k \in j..i : Period(rows[k]) = Period(rows[i])
        /\ j > 1 => Period(rows[j - 1]) # Period(rows[i])

\* What a full replay leaves on row i.
ChainFields(rows, i) ==
    IF rows[i].working = TRUE
    THEN <<TRUE, ZeroTime, ZeroTime, ZeroTime>>
    ELSE <<FALSE,
           secondsToTime(SumElapsed(rows, RunStart(rows, i, DayOf), i)),
           secondsToTime(SumElapsed(rows, RunStart(rows, i, WeekOf), i)),
           secondsToTime(SumElapsed(rows, RunStart(rows, i, MonthOf), i))>>

EditorOps == {"POST /editor", "PUT /editor/:id", "DELETE /editor/:id"}

\* C2: once an editor insert, edit or delete has succeeded, every row left to
\* the employee it wrote for carries the active flag and the daily, weekly and
\* monthly totals of the elapsed-time chain of the rows that remain.
C2_EditorReplays ==
    (last.op \in EditorOps /\ last.status = 200) =>
        LET rows == Ordered(RowsOf(fitxatge, last.emp))
        IN  \A i \in 1..Len(rows) :
                <<rows[i].active, rows[i].hores_diaries,
                  rows[i].hores_setmanals, rows[i].hores_mensuals>>
                    = ChainFields(rows, i)

\* A delete that changed the totals of a row it left: two rows remain, the
\* later one a check-out with a total.
C2_Witness ==
    /\ last.op = "DELETE /editor/:id" /\ last.status = 200 /\ last.changed
    /\ LET rows == Ordered(RowsOf(fitxatge, last.emp))
       IN  /\ Len(rows) = 2
           /\ rows[2].working = FALSE /\ rows[2].hores_diaries # ZeroTime

\* C3: every check-in row of the ledger holds 00:00:00 as its daily, weekly
\* and monthly total, in every state any operation leaves.
C3_CheckInZero ==
    \A r \in fitxatge :
        r.working = TRUE => Durations(r) = <<ZeroTime, ZeroTime, ZeroTime>>

\* A check-in that follows, on the same day, a check-out with a total.
C3_Witness ==
    \E r \in fitxatge : \E q \in RowsOf(fitxatge, r.employee_id) :
        /\ r.working = TRUE /\ q.working = FALSE
        /\ q.dia = r.dia /\ RowBefore(q, r)
        /\ q.hores_diaries # ZeroTime

AutoCheckoutTypes ==
    {"Auto-checkout >10h (no manual checkout)", "Auto-checkout >12h30"}

\* The incidences a step appends for an employee.
NewIncidences(before, after, e) ==
    { i \in (Len(before) + 1)..Len(after) : after[i].worker_id = e }

C5_NoDoubleClose ==
    \A r \in fitxatge : \A q \in RowsOf(fitxatge, r.employee_id) :
        (r.working = FALSE /\ q.working = FALSE /\ r.id < q.id) =>
            \E m \in RowsOf(fitxatge, r.employee_id) :
                m.working = TRUE /\ r.id < m.id /\ m.id < q.id

\* C6: the rows of every employee, in (dia, hora, id) order, alternate
\* check-in, check-out, check-in, ... and start with a check-in.
C6_Alternation ==
    \A e \in Emps :
        LET rows == Ordered(RowsOf(fitxatge, e))
        IN  \A i \in 1..Len(rows) : rows[i].working = (i % 2 = 1)

\* C7: a POST /checkin-out whose PIN is not empty and is the PIN of no
\* employee answers 404 and leaves fitxatge and incidences as they were.
C7_UnknownPin ==
    [][ \A p \in PinInputs :
          ( /\ p # ""
            /\ ~ \E e \in employees : e.pin_code = p
            /\ CheckinOut(p) )
          => /\ last'.status = 404
             /\ fitxatge' = fitxatge
             /\ incidences' = incidences ]_vars

\* An unknown PIN has been answered 404 while a session was open.
C7_Witness ==
    /\ last.op = "checkin-out" /\ last.status = 404
    /\ get_open_sessions(fitxatge) # {}

\* C8: a live check-out adds to the recorded totals of the day, week and
\* month the elapsed time of the session, or the ceiling when the elapsed
\* time is beyond it; beyond the ceiling it writes one Open auto-checkout
\* incidence for the employee, and otherwise none.
C8_LiveCap ==
    [][ (last.op = "none" /\ last'.op = "check-out") =>
          LET e       == last'.emp
              lastRow == CHOOSE r \in LatestById(RowsOf(fitxatge, e)) : TRUE
              elapsed == NowT - ToDayjs(lastRow.dia, lastRow.hora)
              cap     == MAX_SESSION_SECONDS(revision)
              added   == IF elapsed > cap THEN cap ELSE elapsed
              incs    == NewIncidences(incidences, incidences', e)
          IN  /\ \A r \in fitxatge' \ fitxatge :
                   /\ r.hores_diaries = secondsToTime(
                          sumSecondsForDay(revision, fitxatge, e,
                                           FormatDate(NowT)) + added)
                   /\ r.hores_setmanals = secondsToTime(
                          sumSecondsForWeek(revision, fitxatge, e, NowT) + added)
                   /\ r.hores_mensuals = secondsToTime(
                          sumSecondsForMonth(revision, fitxatge, e, NowT) + added)
              /\ IF elapsed > cap
                 THEN /\ Cardinality(incs) = 1
                      /\ \A i \in incs :
                           /\ incidences'[i].incidence_type \in AutoCheckoutTypes
                           /\ incidences'[i].InstanceStatus = "Open"
                 ELSE incidences' = incidences ]_vars

\* C9: the daily, weekly and monthly totals a live check-out has just written
\* on its row are those recomputeHours computes for that row from the ledger
\* as it then stands. Stated for histories in which no session was forced,
\* so that no ceiling has a part in either computation.
C9_LiveAgrees ==
    (last.op = "check-out" /\ incidences = <<>>) =>
        \A r \in fitxatge : r.id = nextId - 1 =>
            \A q \in recomputeHours(fitxatge, last.emp) :
                q.id = r.id => Durations(q) = Durations(r)

\* C10: every request that has written the ledger and answered 200, from the
\* editor or from the clock endpoint, has awaited recomputeHours for the
\* employee before answering.
C10_AwaitsRecompute ==
    (last.op \in EditorOps \cup {"check-in", "check-out"} /\ last.status = 200)
        => last.recomputed

(***************************************************************************)
(* recomputeHours over ledgers that cross days and weeks                   *)
(***************************************************************************)

\* Sat 27 Jan 2024 08:00 and 16:00, Sun 28 Jan 09:00 and 12:00 (the same ISO
\* week), Mon 29 Jan 08:00 (the next ISO week).
PeriodStamps ==
    { <<<<2024, 1, 27>>, <<8, 0, 0>>>>, <<<<2024, 1, 27>>, <<16, 0, 0>>>>,
      <<<<2024, 1, 28>>, <<9, 0, 0>>>>, <<<<2024, 1, 28>>, <<12, 0, 0>>>>,
      <<<<2024, 1, 29>>, <<8, 0, 0>>>> }

\* A ledger of the first employee: row i has the stamp and the kind f[i].
PeriodLedger(f, n) == {StoredRow(i, <<1, f[i][1], f[i][2]>>) : i \in 1..n}

\* Every such ledger of at most MaxPeriodLen rows.
InitPeriods ==
    /\ revision = "current"
    /\ employees = EmployeesTable
    /\ \E n \in 0..MaxPeriodLen : \E f \in [1..n -> PeriodStamps \X BOOLEAN] :
           fitxatge = PeriodLedger(f, n)
    /\ incidences = <<>>
    /\ nextId = MaxPeriodLen + 1
    /\ now = 1
    /\ guard = GuardIdle
    /\ last = Idle
    /\ children = ChildrenTable
    /\ nextEmployeeId = 3
    /\ pending = <<>>
    /\ inflight = <<>>
    /\ bound = [id |-> MaxPeriodLen, instants |-> SubSeq(AllInstants, 1, 1),
                stamps |-> PeriodStamps]

\* recomputeHours for an employee who has rows.
NextPeriods == \E e \in {r.employee_id : r \in fitxatge} : RecomputeHours(e)
SpecPeriods == InitPeriods /\ [][NextPeriods]_vars

\* The elapsed seconds of the sessions closed by the rows j..i whose period,
\* listed per row in `periods`, is that of row i.
RECURSIVE SumSamePeriod(_, _, _, _)
SumSamePeriod(rows, periods, i, j) ==
    IF j > i THEN 0
    ELSE (IF periods[j] = periods[i] THEN Elapsed(rows, j) ELSE 0)
         + SumSamePeriod(rows, periods, i, j + 1)

\* The ISO week of a row as a calendar period: the number of its Monday
\* counted in weeks from Monday 29 Dec 1969.
MondayWeekOf(r) == (DaysFromCivil(r.dia) + 3) \div 7

\* C11: after a replay, the daily total of every check-out row is the sum of
\* the elapsed seconds of the sessions closed on its calendar day up to and
\* including it, and its weekly total the same sum over its ISO week.
C11_PeriodReset ==
    last.op = "recomputeHours" =>
        LET rows  == Ordered(RowsOf(fitxatge, last.emp))
            days  == [k \in 1..Len(rows) |-> DayOf(rows[k])]
            weeks == [k \in 1..Len(rows) |-> MondayWeekOf(rows[k])]
        IN  \A i \in 1..Len(rows) :
                rows[i].working = FALSE =>
                    /\ rows[i].hores_diaries =
                           secondsToTime(SumSamePeriod(rows, days, i, 1))
                    /\ rows[i].hores_setmanals =
                           secondsToTime(SumSamePeriod(rows, weeks, i, 1))

\* Sessions of 8 h on Saturday and 3 h on Sunday have been replayed: daily
\* 08:00:00 then 03:00:00, weekly 11:00:00.
C11_Witness ==
    /\ last.op = "recomputeHours"
    /\ \E r \in RowsOf(fitxatge, last.emp) : \E q \in RowsOf(fitxatge, last.emp) :
         /\ r.dia = <<2024, 1, 27>> /\ r.hores_diaries = <<8, 0, 0>>
         /\ q.dia = <<2024, 1, 28>> /\ q.hores_diaries = <<3, 0, 0>>
         /\ q.hores_setmanals = <<11, 0, 0>>

(***************************************************************************)
(* routes/incidences.js                                                    *)
(***************************************************************************)

MaxIncidences == 2
MaxIncId == 2

\* The clock of the incidence endpoints: Saturday 08:00 and 12:00, to check
\* in, and Sunday 09:00, when either revision forces the check-out.
IncidenceInstants == SubSeq(AllInstants, 1, 3)

\* incidenceType of a request body, "" for none.
IncidenceTypes == {"Late arrival", ""}
\* ?job_id= and ?department= of a query, 0 and "" for none; job 3 matches
\* nobody and job 1 is not of the department Office.
JobFilters == {0, 1, 3}
DepartmentFilters == {"", "Production", "Office"}

\* incidence_id is serial and no handler of this router deletes: the id of
\* an incidence is its position in the table.
IncidenceIds == 1..Len(incidences)

\* The row POST /api/incidences inserts (its free-text description is
\* carried nowhere else and left out).
OpenIncidence(employeeId, incidenceType, t) ==
    [ worker_id |-> employeeId,
      incidence_type |-> incidenceType,
      InstanceStatus |-> "Open",
      date_created |-> FormatDate(t),
      date_resolved |-> <<>> ]

\* POST /api/incidences with body { pinCode, incidenceType }
PostIncidence(pinCode, incidenceType) ==
    LET found == FindEmployee(employees, pinCode) IN
    /\ Ready
    /\ UNCHANGED <<hrVars, bound, revision, employees, fitxatge, nextId, now, guard>>
    /\ IF pinCode = "" \/ incidenceType = ""
       THEN /\ last' = Done("POST /incidences", 400, 0, FALSE)
            /\ UNCHANGED incidences
       ELSE IF Cardinality(found) # 1      \* .single(): empErr || !employee
       THEN /\ last' = Done("POST /incidences", 404, 0, FALSE)
            /\ UNCHANGED incidences
       ELSE LET employeeId == (CHOOSE e \in found : TRUE).employee_id IN
            /\ Len(incidences) < bound.incidences
            /\ incidences' = Append(incidences,
                                    OpenIncidence(employeeId, incidenceType, NowT))
            /\ last' = [Done("POST /incidences", 200, employeeId, FALSE)
                           EXCEPT !.changed = TRUE]

\* The embed employees ( workdetails ( job_id, jobdescription ( department ) ) )
\* normalised to its first row: job_id 0 and department "" stand for null.
\* No employee of the model has two workdetails rows.
JobOf(table, kids, workerId) ==
    LET emp == {e \in table : e.employee_id = workerId}
        wd  == {c \in kids : c.table = "WorkDetails" /\ c.employee_id = workerId}
    IN  IF emp = {} \/ wd = {} THEN 0 ELSE (CHOOSE c \in wd : TRUE).job_id
DepartmentOf(jobId) ==
    LET jd == {j \in JobDescription : j.job_id = jobId}
    IN  IF jd = {} THEN "" ELSE (CHOOSE j \in jd : TRUE).department

\* One element of `cleaned`.
Cleaned(i) ==
    LET jobId == JobOf(employees, children, incidences[i].worker_id) IN
    [ incidence_id |-> i,
      incidence_type |-> incidences[i].incidence_type,
      InstanceStatus |-> incidences[i].InstanceStatus,
      date_created |-> incidences[i].date_created,
      date_resolved |-> incidences[i].date_resolved,
      job_id |-> jobId,
      department |-> DepartmentOf(jobId) ]

\* A filter that lets a row through when either supplied filter matches.
MatchesEither(row, job_id, department) ==
    \/ job_id = 0 /\ department = ""
    \/ job_id # 0 /\ row.job_id = job_id
    \/ department # "" /\ row.department = department

\* if (job_id) cleaned.filter(String(i.job_id ?? '') === String(job_id));
\* if (department) cleaned.filter(i.department === department)
MatchesFilters(row, job_id, department) ==
    /\ job_id # 0 => row.job_id = job_id
    /\ department # "" => row.department = department

\* GET /api/incidences?job_id=&department=: the body as a set, the order of
\* the rows left aside.
GetIncidences(job_id, department) ==
    /\ Ready
    /\ last' = [Done("GET /incidences", 200, 0, FALSE) EXCEPT
                   !.query = <<job_id, department>>,
                   !.body = { Cleaned(i) : i \in
                               { k \in IncidenceIds :
                                   /\ incidences[k].InstanceStatus # "Completed"
                                   /\ MatchesFilters(Cleaned(k), job_id, department) } }]
    /\ UNCHANGED <<hrVars, bound, revision, employees, fitxatge, incidences, nextId, now, guard>>

\* An update that reopens a completed incidence.
ToggleRow(r, today) ==
    IF r.InstanceStatus = "Completed"
    THEN [r EXCEPT !.InstanceStatus = "Open", !.date_resolved = <<>>]
    ELSE [r EXCEPT !.InstanceStatus = "Completed", !.date_resolved = today]

\* .update({ InstanceStatus: 'Completed', date_resolved: today })
CompleteRow(r, today) ==
    [r EXCEPT !.InstanceStatus = "Completed", !.date_resolved = today]

\* PUT /api/incidences/complete/:id: the update of the rows .eq('incidence_id',
\* id), none for an id no row has, and 200 unless the store reports an error.
CompleteIncidence(id) ==
    /\ Ready
    /\ incidences' = [i \in IncidenceIds |->
                         IF i = id THEN CompleteRow(incidences[i], FormatDate(NowT))
                         ELSE incidences[i]]
    /\ last' = [Done("PUT /incidences/complete/:id", 200, 0, FALSE) EXCEPT
                   !.query = <<id>>,
                   !.changed = (incidences' # incidences)]
    /\ UNCHANGED <<hrVars, bound, revision, employees, fitxatge, nextId, now, guard>>

InitIncidences ==
    Start([id |-> MaxIncId, instants |-> IncidenceInstants,
           stamps |-> {}, incidences |-> MaxIncidences], Revisions)

Incidences ==
    \/ \E p \in PinInputs, t \in IncidenceTypes : PostIncidence(p, t)
    \/ \E j \in JobFilters, d \in DepartmentFilters : GetIncidences(j, d)
    \/ \E id \in 1..(Len(incidences) + 1) : CompleteIncidence(id)

\* The incidence endpoints next to the clock endpoint and the sweep.
NextIncidences == Tick \/ Live \/ ForceLongSessions \/ Incidences \/ Return
SpecIncidences == InitIncidences /\ [][NextIncidences]_vars

\* C12: in every step, an incidence that exists stays in the table with a
\* status of Open or Completed, a Completed incidence stays Completed, and
\* every incidence a step adds (by POST /api/incidences, by the sweep or by a
\* forced check-out) is Open: the only change of status is Open -> Completed.
C12_StatusMonotonic ==
    [][ /\ Len(incidences') >= Len(incidences)
        /\ \A i \in 1..Len(incidences) :
              /\ incidences'[i].InstanceStatus \in {"Open", "Completed"}
              /\ incidences[i].InstanceStatus = "Completed"
                     => incidences'[i].InstanceStatus = "Completed"
        /\ \A i \in (Len(incidences) + 1)..Len(incidences') :
              incidences'[i].InstanceStatus = "Open" ]_vars

\* PUT /complete/:id has answered, an automatic incidence is Completed and
\* one posted by hand is in the table.
C12_Witness ==
    /\ last.op = "PUT /incidences/complete/:id"
    /\ \E i \in IncidenceIds :
          /\ incidences[i].incidence_type \in AutoCheckoutTypes
          /\ incidences[i].InstanceStatus = "Completed"
    /\ \E i \in IncidenceIds : incidences[i].incidence_type = "Late arrival"

\* C13: once GET /api/incidences has answered, no incidence of its body is
\* Completed in the table, and each one's worker has the job of a supplied
\* job_id filter and a job in the department of a supplied department filter.
C13_OpenListing ==
    last.op = "GET /incidences" =>
        \A row \in last.body :
            LET jobId == JobOf(employees, children,
                               incidences[row.incidence_id].worker_id) IN
            /\ row.incidence_id \in IncidenceIds
            /\ incidences[row.incidence_id].InstanceStatus # "Completed"
            /\ row.InstanceStatus # "Completed"
            /\ last.query[1] # 0 => jobId = last.query[1] /\ row.job_id = jobId
            /\ last.query[2] # "" =>
                   /\ row.department = last.query[2]
                   /\ \E j \in JobDescription :
                          j.job_id = jobId /\ j.department = last.query[2]

\* A listing with both filters supplied that returns an incidence while the
\* table also holds a Completed incidence and an Open one of another job.
C13_Witness ==
    /\ last.op = "GET /incidences"
    /\ last.query = <<1, "Production">>
    /\ last.body # {}
    /\ \E i \in IncidenceIds : incidences[i].InstanceStatus = "Completed"
    /\ \E i \in IncidenceIds :
          /\ incidences[i].InstanceStatus = "Open"
          /\ incidences[i].worker_id = 2

\* C14: PUT /api/incidences/complete/:id with an id no incidence has answers
\* 404 and changes no incidence.
C14_UnknownIncidence ==
    (last.op = "PUT /incidences/complete/:id" /\ last.query[1] \notin IncidenceIds)
        => last.status = 404 /\ ~last.changed

\* A row-addressed editor request has just been answered, for an id no row
\* of the ledger had.
UnknownIdAnswered ==
    /\ last = Idle
    /\ last'.op \in {"PUT /editor/:id", "DELETE /editor/:id"}
    /\ last'.query[1] \notin {r.id : r \in fitxatge}

MaxEmployees == 4
MaxPending == 2

\* The PINs generateUniquePin draws from and callers supply; "" for a body
\* without pin_code.
Pins == {"1111", "2222", "3333"}

\* generateUniquePin(): a request with its required fields present draws
\* PINs until the select by pin_code finds no row, and holds the PIN it
\* returns until its insert; one with a field missing answers 400.
GeneratePin(valid, pin) ==
    /\ Ready
    /\ IF ~valid
       THEN /\ last' = Done("POST /api/employees", 400, 0, FALSE)
            /\ UNCHANGED pending
       ELSE /\ Len(pending) < bound.pending
            /\ FindEmployee(employees, pin) = {}
            /\ pending' = Append(pending, pin)
            /\ UNCHANGED last
    /\ UNCHANGED <<bound, revision, employees, fitxatge, incidences, nextId, now,
                   guard, children, nextEmployeeId, inflight>>

\* The blank child rows POST /api/employees inserts for a new employee.
BlankChildren(employeeId) ==
    { [table |-> t, employee_id |-> employeeId, job_id |-> 0] :
        t \in {"Administration", "Contact", "Compensation", "WorkDetails", "Academics"} }

\* The rest of POST /api/employees for the k-th request in flight: the insert
\* of the employee with the generated PIN, the blank child rows, 201.
InsertEmployee(k) ==
    /\ Ready
    /\ k \in 1..Len(pending)
    /\ nextEmployeeId <= bound.employees
    /\ employees' = employees \cup
           {[employee_id |-> nextEmployeeId, pin_code |-> pending[k]]}
    /\ children' = children \cup BlankChildren(nextEmployeeId)
    /\ nextEmployeeId' = nextEmployeeId + 1
    /\ pending' = SubSeq(pending, 1, k - 1) \o SubSeq(pending, k + 1, Len(pending))
    /\ last' = Done("POST /api/employees", 201, nextEmployeeId, FALSE)
    /\ UNCHANGED <<bound, revision, fitxatge, incidences, nextId, now, guard,
                   inflight>>

\* POST /api/employees of routes/employees.js with body { ..., pin_code }
CreateEmployee(pin_code) ==
    /\ Ready
    /\ IF pin_code = ""
       THEN /\ last' = Done("POST /api/employees (pin_code)", 400, 0, FALSE)
            /\ UNCHANGED <<employees, nextEmployeeId>>
       ELSE /\ nextEmployeeId <= bound.employees
            /\ employees' = employees \cup
                   {[employee_id |-> nextEmployeeId, pin_code |-> pin_code]}
            /\ nextEmployeeId' = nextEmployeeId + 1
            /\ last' = Done("POST /api/employees (pin_code)", 200, nextEmployeeId, FALSE)
    /\ UNCHANGED <<bound, revision, fitxatge, incidences, nextId, now, guard,
                   children, pending, inflight>>

\* PUT /api/employees/:id with body { ..., pin_code }
UpdateEmployee(id, pin_code) ==
    /\ Ready
    /\ IF pin_code = ""
       THEN /\ last' = [Done("PUT /api/employees/:id", 400, 0, FALSE) EXCEPT !.query = <<id>>]
            /\ UNCHANGED employees
       ELSE /\ employees' = { IF e.employee_id = id
                              THEN [e EXCEPT !.pin_code = pin_code] ELSE e :
                              e \in employees }
            /\ last' = [Done("PUT /api/employees/:id",
                             IF \E e \in employees : e.employee_id = id
                             THEN 200 ELSE 404, 0, FALSE) EXCEPT !.query = <<id>>]
    /\ UNCHANGED <<hrVars, bound, revision, fitxatge, incidences, nextId, now, guard>>

InitEmployees ==
    Start([id |-> 0, instants |-> SubSeq(AllInstants, 1, 1), stamps |-> {},
           employees |-> MaxEmployees, pending |-> MaxPending], {"current"})

\* Requests to /api/employees, those of addEmployees.js taken at the store
\* call between generateUniquePin and the insert.
NextEmployees ==
    \/ \E v \in BOOLEAN, p \in Pins : GeneratePin(v, p)
    \/ \E k \in 1..MaxPending : InsertEmployee(k)
    \/ \E p \in Pins \cup {""} : CreateEmployee(p)
    \/ \E id \in 1..nextEmployeeId, p \in Pins \cup {""} : UpdateEmployee(id, p)
    \/ Return
SpecEmployees == InitEmployees /\ [][NextEmployees]_vars

\* C16: no two employees hold the same PIN.
C16_PinUnique ==
    \A a \in employees : \A b \in employees :
        a.pin_code = b.pin_code => a.employee_id = b.employee_id

(***************************************************************************)
(* routes/controlWorkers.js: DELETE /api/control-workers/:id               *)
(***************************************************************************)

MaxWorkerId == 2
MaxWorkerIncidences == 2

tablesToDelete ==
    << "Fitxatge", "Baixes", "Administration", "Contact", "Compensation",
       "WorkDetails", "Academics", "Activities" >>

\* What the foreign key incidences.worker_id -> employees (the embed names it
\* incidences_worker_fk) does when the employee row is deleted. The schema is
\* not part of the repository: the key refuses the delete, removes the
\* incidences, or sets their worker_id to null (0).
OnDelete == {"restrict", "cascade", "set null"}

\* DELETE /api/control-workers/:id; id 0 stands for one that is not a number.
\* A cascade shifts the positions of the incidences left: this router
\* addresses none by id.
DeleteWorker(id, onDelete) ==
    LET refs == {i \in IncidenceIds : incidences[i].worker_id = id}
        refused == refs # {} /\ onDelete = "restrict"
    IN
    /\ Ready
    /\ IF id = 0
       THEN /\ last' = Done("DELETE /control-workers/:id", 400, 0, FALSE)
            /\ UNCHANGED <<employees, fitxatge, incidences, children>>
       ELSE /\ fitxatge' = fitxatge \ RowsOf(fitxatge, id)
            /\ children' = {c \in children : c.employee_id # id}
            /\ employees' = IF refused THEN employees
                            ELSE {e \in employees : e.employee_id # id}
            /\ incidences' =
                   IF refused THEN incidences
                   ELSE IF onDelete = "cascade"
                   THEN SelectSeq(incidences, LAMBDA r : r.worker_id # id)
                   ELSE [i \in IncidenceIds |->
                            IF i \in refs THEN [incidences[i] EXCEPT !.worker_id = 0]
                            ELSE incidences[i]]
            /\ last' = [Done("DELETE /control-workers/:id",
                             IF refused THEN 500 ELSE 200, id, FALSE) EXCEPT
                           !.query = <<id>>,
                           !.issued = IF refused THEN tablesToDelete
                                      ELSE Append(tablesToDelete, "Employees")]
    /\ UNCHANGED <<bound, revision, nextId, now, guard, nextEmployeeId, pending,
                   inflight>>

InitWorkers ==
    Start([id |-> MaxWorkerId, instants |-> SubSeq(AllInstants, 1, 1),
           stamps |-> {}, incidences |-> MaxWorkerIncidences], {"current"})

\* Deletions of workers who have clocked and reported incidences.
NextWorkers ==
    \/ Live
    \/ \E p \in PinInputs, t \in IncidenceTypes : PostIncidence(p, t)
    \/ \E id \in 0..nextEmployeeId, f \in OnDelete : DeleteWorker(id, f)
    \/ Return
SpecWorkers == InitWorkers /\ [][NextWorkers]_vars

\* The dependent tables in which employee `id` has rows.
DependentTablesOf(id) ==
    {c.table : c \in {k \in children : k.employee_id = id}}
        \cup (IF RowsOf(fitxatge, id) # {} THEN {"Fitxatge"} ELSE {})
        \cup (IF \E i \in IncidenceIds : incidences[i].worker_id = id
              THEN {"incidences"} ELSE {})

\* C17: when DELETE /api/control-workers/:id reports success, it has issued,
\* before the delete on Employees, a delete on every dependent table in which
\* the employee had rows, and afterwards no row of the ledger, of the leave
\* and profile tables or of incidences carries the deleted employee id.
C17_DeletionOrder ==
    [][ (last = Idle /\ last'.op = "DELETE /control-workers/:id"
                     /\ last'.status = 200) =>
          LET id == last'.query[1]
              issued == last'.issued
          IN  /\ \A t \in DependentTablesOf(id) :
                    \E k \in 1..Len(issued) : \E e \in 1..Len(issued) :
                        issued[k] = t /\ issued[e] = "Employees" /\ k < e
              /\ RowsOf(fitxatge', id) = {}
              /\ \A c \in children' : c.employee_id # id
              /\ \A i \in 1..Len(incidences') : incidences'[i].worker_id # id ]_vars

(***************************************************************************)
(* routes/fitxatge.js under store failures                                 *)
(***************************************************************************)

MaxFaultId == 3
MaxFaultTick == 3
MaxFaultIncidences == 3

\* The answer to the employee lookup, data being the set FindEmployee gives
\* ({} for null) and error whether the store reported one: 0 to go on. The
\* current revision tests !employee before empErr, the legacy one empErr
\* first.
LookupStatus(rev, data, error) ==
    IF rev = "current"
    THEN IF data = {} THEN 404 ELSE IF error THEN 500 ELSE 0
    ELSE IF error THEN 500 ELSE IF data = {} THEN 404 ELSE 0

\* POST /checkin-out when the store reports an error on the employee lookup:
\* .maybeSingle() resolves to { data: null, error }.
CheckinOutLookupError(pinCode) ==
    /\ Ready
    /\ pinCode # ""
    /\ last' = [Done("checkin-out", LookupStatus(revision, {}, TRUE), 0, FALSE)
                   EXCEPT !.query = <<"lookup error">>]
    /\ UNCHANGED <<hrVars, bound, revision, employees, fitxatge, incidences, nextId, now, guard>>

\* What can go wrong in a run of the sweep: the rpc or the first insert of a
\* ledger row returns an error or raises.
SweepFaults == {"rpc error", "rpc raise", "write error", "write raise"}
\* What Node does with the rejected promise of a timer callback nobody
\* awaits (--unhandled-rejections): warn and go on, or terminate the process
\* (the default from Node 15 on). No file of src registers a handler.
UnhandledRejections == {"warn", "throw"}

\* One run of forceLongSessions hit by `fault`. The legacy revision wraps the
\* run in try/catch, returns on an rpc error and skips the session whose
\* insert failed; the current one has no try/catch, returns on a null rpc
\* result and does not look at what its inserts return, so the incidence of
\* the session whose ledger insert failed is still written.
ForceLongSessionsFailing(fault, mode) ==
    LET over == SelectSeq(ByEmployee(get_open_sessions(fitxatge)),
                          LAMBDA r : OverCeiling(revision, r, NowT))
        st0  == [fitxatge |-> fitxatge, incidences |-> incidences, nextId |-> nextId]
        raised == fault \in {"rpc raise", "write raise"}
        st   == IF fault # "write error" THEN st0
                ELSE SweepFrom(revision,
                               IF revision = "current"
                               THEN [st0 EXCEPT !.incidences =
                                        Append(@, AutoCheckoutIncidence(
                                                    revision, over[1].employee_id, NowT))]
                               ELSE st0,
                               Tail(over), 1, NowT)
    IN  /\ Ready
        /\ guard.pc = "idle"
        /\ fault \in {"write error", "write raise"} => over # <<>>
        /\ st.nextId <= bound.id + 1
        /\ Len(st.incidences) <= bound.incidences
        /\ fitxatge' = st.fitxatge
        /\ incidences' = st.incidences
        /\ nextId' = st.nextId
        /\ guard' = IF revision = "current" /\ raised /\ mode = "throw"
                    THEN [GuardIdle EXCEPT !.pc = "dead"] ELSE guard
        /\ last' = [Done("forceLongSessions", 0, 0, FALSE) EXCEPT !.query = <<fault>>]
        /\ UNCHANGED <<hrVars, bound, revision, employees, now>>

\* The process that serves the requests and holds the sweep's timer runs.
Alive == guard.pc # "dead"

InitFaults ==
    Start([id |-> MaxFaultId, instants |-> SubSeq(AllInstants, 1, MaxFaultTick),
           stamps |-> {}, incidences |-> MaxFaultIncidences], Revisions)

\* The clock endpoint and the sweep, with store failures.
NextFaults ==
    \/ Tick
    \/ Alive /\ Live
    \/ Alive /\ \E p \in PinInputs : CheckinOutLookupError(p)
    \/ ForceLongSessions
    \/ \E f \in SweepFaults, m \in UnhandledRejections : ForceLongSessionsFailing(f, m)
    \/ Return
SpecFaults == InitFaults /\ [][NextFaults]_vars

\* C18: a POST /checkin-out whose employee lookup met a store error is
\* answered 500 and has written no ledger row.
C18_LookupError ==
    [][ (last = Idle /\ last'.op = "checkin-out"
                     /\ last'.query = <<"lookup error">>) =>
            last'.status = 500 /\ fitxatge' = fitxatge ]_vars

\* C19: no failed run of forceLongSessions ends the process that holds its
\* timer, so the next scheduled run executes; and a run that met no failure
\* leaves no open session over the ceiling.
C19_SweepIsolated ==
    /\ Alive
    /\ (last.op = "forceLongSessions" /\ last.query = <<>>) =>
           \A r \in get_open_sessions(fitxatge) : ~OverCeiling(revision, r, NowT)

(***************************************************************************)
(* The HH:MM:SS codec as text                                              *)
(***************************************************************************)

MaxCodecStep == 120

\* The seconds the codec is applied to: every value from a base up to
\* MaxCodecStep further, the bases being 0, 00:59:00, 23:59:00 (on to 24 h
\* and more) and 99:59:00 (on to a three-digit hours field).
CodecBases == {0, 3540, 86340, 359940}
CodecSeconds == {b + k : b \in CodecBases, k \in 0..MaxCodecStep}

DigitChars == <<"0", "1", "2", "3", "4", "5", "6", "7", "8", "9">>

\* String(n) for an integer n >= 0, as a sequence of characters.
RECURSIVE String(_)
String(n) ==
    IF n < 10 THEN <<DigitChars[n + 1]>>
    ELSE String(n \div 10) \o <<DigitChars[(n % 10) + 1]>>

\* str.padStart(2, "0")
padStart2(str) == IF Len(str) >= 2 THEN str ELSE <<"0">> \o str

\* Number(str) for a string of decimal digits.
RECURSIVE Number(_)
Number(str) ==
    IF str = <<>> THEN 0
    ELSE Number(SubSeq(str, 1, Len(str) - 1)) * 10
             + (CHOOSE d \in 0..9 : DigitChars[d + 1] = str[Len(str)])

\* str.split(":")
RECURSIVE split(_)
split(str) ==
    IF \A i \in 1..Len(str) : str[i] # ":" THEN <<str>>
    ELSE LET c == CHOOSE i \in 1..Len(str) :
                      str[i] = ":" /\ \A j \in 1..(i - 1) : str[j] # ":"
         IN  <<SubSeq(str, 1, c - 1)>> \o split(SubSeq(str, c + 1, Len(str)))

\* secondsToTime as the text it returns: `${hh}:${mm}:${ss}`
secondsToTimeText(totalSeconds) ==
    LET t == secondsToTime(totalSeconds) IN
    padStart2(String(t[1])) \o <<":">> \o padStart2(String(t[2]))
        \o <<":">> \o padStart2(String(t[3]))

\* timeToSeconds of a text: timeStr.split(':').map(Number), then the sum.
timeToSecondsText(timeStr) ==
    LET parts == split(timeStr) IN
    timeToSeconds([i \in 1..Len(parts) |-> Number(parts[i])])

\* secondsToTime(s) is called.
Encode(s) ==
    /\ Ready
    /\ last' = [Done("secondsToTime", 0, 0, FALSE) EXCEPT
                   !.query = <<s, secondsToTimeText(s)>>]
    /\ UNCHANGED <<hrVars, bound, revision, employees, fitxatge, incidences, nextId, now, guard>>

\* timeToSeconds is called on the text just returned.
Decode ==
    /\ last.op = "secondsToTime"
    /\ last' = [Done("timeToSeconds", 0, 0, FALSE) EXCEPT
                   !.query = Append(last.query, timeToSecondsText(last.query[2]))]
    /\ UNCHANGED <<hrVars, bound, revision, employees, fitxatge, incidences, nextId, now, guard>>

\* A value computed by the codec has been consumed.
Consume ==
    /\ last.op = "timeToSeconds"
    /\ last' = Idle
    /\ UNCHANGED <<hrVars, bound, revision, employees, fitxatge, incidences, nextId, now, guard>>

InitCodec ==
    Start([id |-> 0, instants |-> SubSeq(AllInstants, 1, 1), stamps |-> {}],
          {"current"})
NextCodec == (\E s \in CodecSeconds : Encode(s)) \/ Decode \/ Consume
SpecCodec == InitCodec /\ [][NextCodec]_vars

\* C20: for every s >= 0 of CodecSeconds, those of 24 h and more included,
\* timeToSeconds applied to the text secondsToTime(s) gives s.
C20_RoundTrip ==
    last.op = "timeToSeconds" => last.query[3] = last.query[1]

\* The round trip of 360060 s, whose text is 100:01:00.
C20_Witness ==
    /\ last.op = "timeToSeconds"
    /\ last.query[1] = 360060
    /\ last.query[2] = <<"1", "0", "0", ":", "0", "1", ":", "0", "0">>
    /\ last.query[3] = 360060

(***************************************************************************)
(* The clock endpoint on ledgers the editor has written out of time        *)
(***************************************************************************)

MaxSkewId == 3

\* What the editor submits here: the Friday evening before the clock starts
\* and the Sunday morning after it has stopped.
SkewStamps == BackDated \cup { <<<<2024, 1, 28>>, <<9, 0, 0>>>> }

InitSkew ==
    Start([id |-> MaxSkewId, instants |-> SubSeq(AllInstants, 1, 2),
           stamps |-> SkewStamps], Revisions)

\* The clock endpoint and the editor, one request at a time, on Saturday.
NextSkew == Tick \/ Live \/ Editor \/ Return
SpecSkew == InitSkew /\ [][NextSkew]_vars

\* The row a step has added to the ledger.
Added == CHOOSE r \in fitxatge' \ fitxatge : TRUE

\* C21: when POST /checkin-out closes a session whose check-in (the
\* employee's row of greatest id) is stamped after the current time, no
\* field of a duration of the new check-out row is negative and none of its
\* durations is below the total its period held before the request.
C21_NoNegativeElapsed ==
    [][ (last = Idle /\ last'.op = "check-out" /\ last'.status = 200) =>
          LET e == last'.emp
              lastRow == CHOOSE r \in LatestById(RowsOf(fitxatge, e)) : TRUE
          IN  ToDayjs(lastRow.dia, lastRow.hora) > NowT =>
                /\ \A d \in 1..3 : \A k \in 1..3 : Durations(Added)[d][k] >= 0
                /\ timeToSeconds(Added.hores_diaries)
                      >= sumSecondsForDay(revision, fitxatge, e, FormatDate(NowT))
                /\ timeToSeconds(Added.hores_setmanals)
                      >= sumSecondsForWeek(revision, fitxatge, e, NowT)
                /\ timeToSeconds(Added.hores_mensuals)
                      >= sumSecondsForMonth(revision, fitxatge, e, NowT) ]_vars

(***************************************************************************)
(* recomputeHours over ledgers that span a year                            *)
(***************************************************************************)

MaxYearLen == 4

\* Mon 30 Jan 2023 08:00 and 16:00 (ISO week 5 of 2023), Mon 29 Jan 2024
\* 08:00 and 12:00 (ISO week 5 of 2024).
YearStamps ==
    { <<<<2023, 1, 30>>, <<8, 0, 0>>>>, <<<<2023, 1, 30>>, <<16, 0, 0>>>>,
      <<<<2024, 1, 29>>, <<8, 0, 0>>>>, <<<<2024, 1, 29>>, <<12, 0, 0>>>> }

\* Every ledger of the first employee of at most MaxYearLen rows with these
\* stamps.
InitYears ==
    /\ revision = "current"
    /\ employees = EmployeesTable
    /\ \E n \in 0..MaxYearLen : \E f \in [1..n -> YearStamps \X BOOLEAN] :
           fitxatge = PeriodLedger(f, n)
    /\ incidences = <<>>
    /\ nextId = MaxYearLen + 1
    /\ now = 1
    /\ guard = GuardIdle
    /\ last = Idle
    /\ children = ChildrenTable
    /\ nextEmployeeId = 3
    /\ pending = <<>>
    /\ inflight = <<>>
    /\ bound = [id |-> MaxYearLen, instants |-> SubSeq(AllInstants, 1, 1),
                stamps |-> YearStamps]

SpecYears == InitYears /\ [][NextPeriods]_vars

\* C22: after a replay, the weekly total of every check-out row is the sum
\* of the elapsed seconds of the sessions closed in its own ISO week (the
\* week of its own year) up to and including it, also when the previous
\* row of the replay lies in the week of the same number a year earlier.
C22_IsoWeekReset ==
    last.op = "recomputeHours" =>
        LET rows  == Ordered(RowsOf(fitxatge, last.emp))
            weeks == [k \in 1..Len(rows) |-> MondayWeekOf(rows[k])]
        IN  \A i \in 1..Len(rows) :
                rows[i].working = FALSE =>
                    rows[i].hores_setmanals =
                        secondsToTime(SumSamePeriod(rows, weeks, i, 1))

(***************************************************************************)
(* The editor on ledgers that hold forced check-outs                       *)
(***************************************************************************)

MaxCapId == 3

\* What the editor submits here: Sunday 18:00, after every instant of the
\* clock.
CapStamps == { <<<<2024, 1, 28>>, <<18, 0, 0>>>> }

InitCap ==
    Start([id |-> MaxCapId, instants |-> SubSeq(AllInstants, 1, 3),
           stamps |-> CapStamps], Revisions)

\* The clock endpoint, the sweep and the editor, one at a time, from
\* Saturday 08:00 to Sunday 09:00.
NextCap == Tick \/ Live \/ ForceLongSessions \/ Editor \/ Return
SpecCap == InitCap /\ [][NextCap]_vars

\* Row r is a check-out written with the ceiling: the employee has an
\* auto-checkout incidence of r's date and r closes, in (dia, hora, id)
\* order, a session longer than the ceiling while holding less than it.
CappedRow(table, r) ==
    LET rows == Ordered(RowsOf(table, r.employee_id))
        i == CHOOSE k \in 1..Len(rows) : rows[k] = r
    IN  /\ r.working = FALSE
        /\ \E n \in 1..Len(incidences) :
              /\ incidences[n].worker_id = r.employee_id
              /\ incidences[n].incidence_type \in AutoCheckoutTypes
              /\ incidences[n].date_created = r.dia
        /\ Elapsed(rows, i) > MAX_SESSION_SECONDS(revision)
        /\ timeToSeconds(r.hores_diaries) < Elapsed(rows, i)

\* The rows of r's employee up to r in (dia, hora, id) order are in `after`
\* with their stamps and kinds, and `after` has no other row before r.
SamePrefix(before, after, r) ==
    LET stamp(q) == <<q.id, q.dia, q.hora, q.working>>
        upTo(table) == {stamp(q) : q \in {x \in RowsOf(table, r.employee_id) :
                                            x.id = r.id \/ RowBefore(x, r)}}
    IN  upTo(before) = upTo(after)

\* C23: an editor operation that succeeds for an employee and touches no row
\* up to a capped check-out row leaves that row as it was: its duration
\* fields stay the prior same-period totals plus the ceiling.
C23_CapSurvives ==
    [][ (last = Idle /\ last'.op \in EditorOps /\ last'.status = 200) =>
          \A r \in RowsOf(fitxatge, last'.emp) :
              (CappedRow(fitxatge, r) /\ SamePrefix(fitxatge, fitxatge', r))
                  => r \in fitxatge' ]_vars

(***************************************************************************)
(* recomputeHours with a store that rejects updates                        *)
(***************************************************************************)

\* A pass that ends at the first rejected update.
RECURSIVE ReplayFromAborting(_, _, _, _)
ReplayFromAborting(st, rows, i, rejected) ==
    IF i > Len(rows) \/ rows[i].id \in rejected THEN st
    ELSE ReplayFromAborting(ReplayRow(st, rows[i]), rows, i + 1, rejected)

\* The loop of recomputeHours when the store answers { error } to the update
\* of the rows in `rejected`: the error is logged, the row stays as stored,
\* the running totals and lastCheckInTime move on as in every iteration.
RECURSIVE ReplayFromRejecting(_, _, _, _)
ReplayFromRejecting(st, rows, i, rejected) ==
    IF i > Len(rows) THEN st
    ELSE LET next == ReplayRow(st, rows[i])
         IN  ReplayFromRejecting(
                 IF rows[i].id \in rejected
                 THEN [next EXCEPT !.table = st.table] ELSE next,
                 rows, i + 1, rejected)

recomputeHoursRejecting(table, employeeId, rejected) ==
    ReplayFromRejecting(ReplayStart(table),
                        Ordered(RowsOf(table, employeeId)), 1, rejected).table

\* DELETE /editor/:id while the store rejects the updates of `rejected`; the
\* lookup and the delete itself are accepted.
EditorDeleteRejecting(id, rejected) ==
    LET row == RowById(fitxatge, id) IN
    /\ Ready
    /\ UNCHANGED <<hrVars, bound, revision, employees, incidences, nextId, now, guard>>
    /\ IF row = {}
       THEN /\ last' = [Done("DELETE /editor/:id", 404, 0, FALSE)
                           EXCEPT !.query = <<id>>, !.body = rejected]
            /\ UNCHANGED fitxatge
       ELSE LET employeeId == (CHOOSE r \in row : TRUE).employee_id IN
            /\ fitxatge' = recomputeHoursRejecting(fitxatge \ row, employeeId,
                                                   rejected)
            /\ last' = [Done("DELETE /editor/:id", 200, employeeId, TRUE)
                           EXCEPT !.query = <<id>>, !.body = rejected,
                                  !.changed = Changed(fitxatge, fitxatge')]

\* Every stored ledger of at most MaxLen rows, one delete at a time, any set
\* of row updates rejected.

\* The ids recomputeHours updates after the delete of row `id`.
Updated(id) ==
    {r.id : r \in {x \in fitxatge \ RowById(fitxatge, id) :
                     \E q \in RowById(fitxatge, id) :
                         x.employee_id = q.employee_id}}

NextRejecting ==
    \/ \E id \in Ids : \E rejected \in SUBSET Updated(id) :
           EditorDeleteRejecting(id, rejected)
    \/ Return
SpecRejecting == InitRecompute /\ [][NextRejecting]_vars

\* C24: a DELETE /editor/:id of a stored row answers 200 whatever updates the
\* store rejects during recomputeHours; afterwards every row whose update was
\* rejected is as it was stored before, and every other row is as a pass
\* without rejections would have left it.
C24_BestEffort ==
    [][ (last = Idle /\ last'.op = "DELETE /editor/:id"
           /\ RowById(fitxatge, last'.query[1]) # {}) =>
          LET row == RowById(fitxatge, last'.query[1])
              e == (CHOOSE r \in row : TRUE).employee_id
              ideal == recomputeHours(fitxatge \ row, e)
          IN  /\ last'.status = 200
              /\ {r.id : r \in fitxatge'} = {r.id : r \in fitxatge \ row}
              /\ \A r \in fitxatge' :
                    IF r.id \in last'.body THEN r \in fitxatge
                    ELSE r \in ideal ]_vars

\* A delete has answered 200 after a pass in which an update was rejected
\* and the update of a later row of the employee was accepted and changed it.
C24_Witness ==
    /\ last.op = "DELETE /editor/:id" /\ last.status = 200
    /\ \E q \in RowsOf(fitxatge, last.emp), r \in RowsOf(fitxatge, last.emp) :
          /\ q.id \in last.body /\ r.id \notin last.body
          /\ RowBefore(q, r)
          /\ Durations(q) = <<StaleTime, StaleTime, StaleTime>>
          /\ r.working = FALSE
          /\ timeToSeconds(r.hores_diaries) > 3723

\* C25: a PUT /api/incidences/complete/:id on an incidence that is already
\* Completed leaves the table of incidences as it was; the incidence keeps
\* the resolution date of the first resolve.
C25_ResolveOnce ==
    [][ (last = Idle /\ last'.op = "PUT /incidences/complete/:id") =>
          \A i \in 1..Len(incidences) :
              (i = last'.query[1] /\ incidences[i].InstanceStatus = "Completed")
                  => incidences'[i] = incidences[i] ]_vars

(***************************************************************************)
(* routes/fitxatgeEditor.js: editor calls in flight at the same time       *)
(***************************************************************************)

MaxCalls == 2
MaxCallLen == 2

\* A call that has not arrived yet.
NoCall ==
    [pc |-> "idle", op |-> "", id |-> 0, emp |-> 0, status |-> 0,
     rows |-> <<>>, i |-> 0, st |-> ReplayStart({})]

\* A ledger of at most MaxCallLen rows of employee 1 as a completed
\* recomputeHours leaves it, and MaxCalls calls to come.
InitCalls ==
    /\ revision = "current"
    /\ employees = EmployeesTable
    /\ \E n \in 0..MaxCallLen :
         \E f \in [1..n -> {1} \X EditorStamps \X BOOLEAN] :
           /\ fitxatge = recomputeHours(Ledger(f, n), 1)
           /\ nextId = n + 1
    /\ incidences = <<>>
    /\ now = 1
    /\ guard = GuardIdle
    /\ last = Idle
    /\ children = ChildrenTable
    /\ nextEmployeeId = 3
    /\ pending = <<>>
    /\ inflight = [k \in 1..MaxCalls |-> NoCall]
    /\ bound = [id |-> MaxCallLen + 1, instants |-> SubSeq(AllInstants, 1, 1),
                stamps |-> EditorStamps]

CallFrame ==
    UNCHANGED <<children, nextEmployeeId, pending, bound, revision, employees,
                incidences, now, guard, last>>

\* POST /editor up to its insert.
InsertWrite(k, employee_id, Dia, Hora, Working) ==
    /\ inflight[k].pc = "idle"
    /\ nextId <= bound.id
    /\ fitxatge' = fitxatge \cup
           {NewRow(nextId, employee_id, Dia, Hora, Working,
                   ZeroTime, ZeroTime, ZeroTime)}
    /\ nextId' = nextId + 1
    /\ inflight' = [inflight EXCEPT ![k] =
           [@ EXCEPT !.pc = "select", !.op = "POST /editor", !.id = nextId,
                     !.emp = employee_id]]
    /\ CallFrame

\* DELETE /editor/:id up to the answer of its lookup.
DeleteLookup(k, id) ==
    /\ inflight[k].pc = "idle"
    /\ inflight' = [inflight EXCEPT ![k] =
           IF RowById(fitxatge, id) = {}
           THEN [@ EXCEPT !.pc = "done", !.op = "DELETE /editor/:id",
                          !.id = id, !.status = 404]
           ELSE [@ EXCEPT !.pc = "delete", !.op = "DELETE /editor/:id",
                          !.id = id,
                          !.emp = (CHOOSE r \in RowById(fitxatge, id) : TRUE).employee_id]]
    /\ UNCHANGED <<fitxatge, nextId>>
    /\ CallFrame

\* .delete().eq('id', id)
DeleteWrite(k) ==
    /\ inflight[k].pc = "delete"
    /\ fitxatge' = fitxatge \ RowById(fitxatge, inflight[k].id)
    /\ inflight' = [inflight EXCEPT ![k] = [@ EXCEPT !.pc = "select"]]
    /\ UNCHANGED nextId
    /\ CallFrame

\* recomputeHours: the select of the employee's rows; with no row the call
\* returns and the handler answers.
RecomputeSelect(k) ==
    LET rows == Ordered(RowsOf(fitxatge, inflight[k].emp)) IN
    /\ inflight[k].pc = "select"
    /\ inflight' = [inflight EXCEPT ![k] =
           IF rows = <<>> THEN [@ EXCEPT !.pc = "done", !.status = 200]
           ELSE [@ EXCEPT !.pc = "update", !.rows = rows, !.i = 1]]
    /\ UNCHANGED <<fitxatge, nextId>>
    /\ CallFrame

\* recomputeHours: one iteration of the loop over the selected rows, the
\* update going to the table as it is now; after the last one the handler
\* answers.
RecomputeUpdate(k) ==
    LET c == inflight[k]
        next == ReplayRow([c.st EXCEPT !.table = fitxatge], c.rows[c.i])
    IN  /\ c.pc = "update"
        /\ fitxatge' = next.table
        /\ inflight' = [inflight EXCEPT ![k] =
               [@ EXCEPT !.st = [next EXCEPT !.table = {}],
                         !.i = c.i + 1,
                         !.pc = IF c.i = Len(c.rows) THEN "done" ELSE "update",
                         !.status = IF c.i = Len(c.rows) THEN 200 ELSE 0]]
        /\ UNCHANGED nextId
        /\ CallFrame

NextCalls ==
    \E k \in 1..MaxCalls :
        \/ \E s \in bound.stamps, w \in BOOLEAN : InsertWrite(k, 1, s[1], s[2], w)
        \/ \E id \in Ids : DeleteLookup(k, id)
        \/ DeleteWrite(k)
        \/ RecomputeSelect(k)
        \/ RecomputeUpdate(k)
SpecCalls == InitCalls /\ [][NextCalls]_vars

\* C26: once every editor call has answered, the ledger is what a replay of
\* it writes: every row's duration and active fields are those of a
\* recomputeHours over the final rows.
C26_Converge ==
    (\A k \in 1..MaxCalls : inflight[k].pc = "done")
        => \A e \in Emps : recomputeHours(fitxatge, e) = fitxatge

\* The last row of a non-empty set of rows in (dia, hora, id) order.
ChronologicallyLast(S) == Ordered(S)[Len(Ordered(S))]

\* C27: whenever POST /checkin-out answers for an employee who has rows, the
\* row of greatest id it took for the last event is the last row of the
\* employee's ledger in (dia, hora, id) order, and it checks the employee in
\* exactly when that row is a check-out; editor inserts and edits of
\* back-dated and future-dated rows included.
C27_LatestIsLast ==
    [][ (last = Idle /\ last'.op \in {"check-in", "check-out"}
           /\ RowsOf(fitxatge, last'.emp) # {}) =>
          LET rows == RowsOf(fitxatge, last'.emp) IN
          /\ LatestById(rows) = {ChronologicallyLast(rows)}
          /\ last'.op = "check-in"
                 <=> ChronologicallyLast(rows).working = FALSE ]_vars

\* The employee's latest event by id is a check-in.
OpenSession(table, e) ==
    \E r \in LatestById(RowsOf(table, e)) : r.working = TRUE

\* C28: with POST /checkin-out and the sweep alone, one at a time, after
\* every step the rows of each employee alternate in id order, check-in
\* first: a row is a check-in exactly when an even number of the employee's
\* rows have a smaller id; and every request answered 200 turns the
\* employee's open session into none or none into one.
C28_Alternates ==
    [][ /\ \A r \in fitxatge' :
              r.working = (Cardinality({q \in RowsOf(fitxatge', r.employee_id) :
                                          q.id < r.id}) % 2 = 0)
        /\ (last = Idle /\ last'.op \in {"check-in", "check-out"}
              /\ last'.status = 200)
             => OpenSession(fitxatge', last'.emp) = ~OpenSession(fitxatge, last'.emp)
      ]_vars

\* An employee checks in again after the sweep has closed a session of
\* theirs: three rows, the second one forced.
C28_Witness ==
    /\ last.op = "check-in" /\ last.status = 200
    /\ Cardinality(RowsOf(fitxatge, last.emp)) >= 3
    /\ \E n \in 1..Len(incidences) :
          /\ incidences[n].worker_id = last.emp
          /\ incidences[n].incidence_type \in AutoCheckoutTypes

(***************************************************************************)
(* forceLongSessions: runs started by the timers while one is in flight    *)
(***************************************************************************)

MaxRuns == 2
MaxOverlapId == 3

\* A run that has not started: `closed` is what the run has logged as
\* auto-checked-out, the open sessions it wrote a check-out for.
NoRun == [pc |-> "idle", now |-> 0, sessions |-> <<>>, closed |-> <<>>]

InitOverlap ==
    /\ revision \in Revisions
    /\ employees = EmployeesTable
    /\ fitxatge = {}
    /\ incidences = <<>>
    /\ nextId = 1
    /\ now = 1
    /\ guard = GuardIdle
    /\ last = Idle
    /\ children = ChildrenTable
    /\ nextEmployeeId = 3
    /\ pending = <<>>
    /\ inflight = [k \in 1..MaxRuns |-> NoRun]
    /\ bound = [id |-> MaxOverlapId, instants |-> SubSeq(AllInstants, 1, 3),
                stamps |-> {}]

RunFrame ==
    UNCHANGED <<children, nextEmployeeId, pending, bound, revision, employees,
                now, last, guard>>

\* setTimeout / setInterval call forceLongSessions, whatever earlier runs are
\* doing: the rpc and the reading of the clock.
ForceStart(k) ==
    /\ Ready
    /\ inflight[k].pc \in {"idle", "done"}
    /\ inflight' = [inflight EXCEPT ![k] =
           [pc |-> "loop", now |-> NowT,
            sessions |-> ByEmployee(get_open_sessions(fitxatge)),
            closed |-> <<>>]]
    /\ UNCHANGED <<fitxatge, incidences, nextId>>
    /\ RunFrame

\* One iteration of the loop of run k.
ForceStep(k) ==
    LET run == inflight[k]
        st == GuardClose(revision,
                         [fitxatge |-> fitxatge, incidences |-> incidences,
                          nextId |-> nextId],
                         Head(run.sessions), run.now)
    IN  /\ Ready
        /\ run.pc = "loop"
        /\ run.sessions # <<>>
        /\ st.nextId <= bound.id + 1
        /\ fitxatge' = st.fitxatge
        /\ incidences' = st.incidences
        /\ nextId' = st.nextId
        /\ inflight' = [inflight EXCEPT ![k] =
               [@ EXCEPT !.sessions = Tail(run.sessions),
                         !.closed = IF st.nextId = nextId THEN run.closed
                                    ELSE Append(run.closed, Head(run.sessions))]]
        /\ RunFrame

\* Run k returns.
ForceEnd(k) ==
    /\ Ready
    /\ inflight[k].pc = "loop"
    /\ inflight[k].sessions = <<>>
    /\ inflight' = [inflight EXCEPT ![k] = [@ EXCEPT !.pc = "done"]]
    /\ UNCHANGED <<fitxatge, incidences, nextId>>
    /\ RunFrame

NextOverlap ==
    \/ Tick
    \/ Live
    \/ \E k \in 1..MaxRuns : ForceStart(k) \/ ForceStep(k) \/ ForceEnd(k)
    \/ Return
SpecOverlap == InitOverlap /\ [][NextOverlap]_vars

\* C29: no check-in row is closed by two runs of the guard: the sessions two
\* runs have written a synthetic check-out and an incidence for are
\* different rows.
C29_OneForcedClose ==
    \A j \in 1..MaxRuns, k \in 1..MaxRuns :
        j # k => \A a \in 1..Len(inflight[j].closed),
                    b \in 1..Len(inflight[k].closed) :
                     inflight[j].closed[a] # inflight[k].closed[b]

\* C30: a run of forceLongSessions, whatever fails in it, appends an
\* auto-checkout incidence for an employee only if it has also added a
\* check-out row for that employee to the ledger.
C30_IncidenceImpliesClose ==
    [][ (last = Idle /\ last'.op = "forceLongSessions") =>
          \A e \in Emps :
              (\E i \in NewIncidences(incidences, incidences', e) :
                   incidences'[i].incidence_type \in AutoCheckoutTypes)
                => \E r \in fitxatge' \ fitxatge :
                       r.employee_id = e /\ r.working = FALSE ]_vars
====
